---- MODULE Spec2Model ----
(***************************************************************************)
(* Model of package images (kubekey): CopyImageOptions.Check and           *)
(* CopyImageOptions.Copy.                                                  *)
(*                                                                         *)
(* A locator (image name) is a sequence of one-character strings over the  *)
(* alphabet {"d", ":", "/"}; "d" stands for any letter, and the one-letter *)
(* name "d" is a registered transport (as "docker", "dir", "oci" are).     *)
(* Calls into containers/image are external: each one either succeeds or   *)
(* fails, chosen nondeterministically where the library allows both.       *)
(* Every call the code makes is appended to log, so the order and number   *)
(* of calls of one invocation can be read from the state.                  *)
(***************************************************************************)
EXTENDS Integers, Sequences, FiniteSets, TLC

\* ---------------------------------------------------------------- bounds
MaxLen == 6          \* longest source locator
MaxEntries == 1      \* longest "manifests" array in a fetched manifest
MaxCalls == 2        \* invocations of Check/Copy on one CopyImageOptions

\* --------------------------------------------------------- input domains
Alphabet == {"d", ":", "/"}

RECURSIVE SeqsUpTo(_)
SeqsUpTo(n) ==
    IF n = 0 THEN {<<>>}
    ELSE LET shorter == SeqsUpTo(n - 1)
         IN  shorter \cup {Append(s, c) : s \in {t \in shorter : Len(t) = n - 1}, c \in Alphabet}

Locators == SeqsUpTo(MaxLen)

\* destination locators: one without a transport prefix, one with
DestLocators == {<<"d">>, <<"d", ":", "/", "/", "d">>}

Archs == {"", "amd64", "arm64"}

EntryArchs == {"amd64", "arm64"}

MediaTypes == {"manifest.list.v2+json", "manifest.v2+json"}

SchemaVersions == {1, 2}

RECURSIVE EntrySeqs(_)
EntrySeqs(n) ==
    IF n = 0 THEN {<<>>}
    ELSE LET shorter == EntrySeqs(n - 1)
         IN  shorter \cup {Append(s, a) : s \in {t \in shorter : Len(t) = n - 1}, a \in EntryArchs}

\* the top-level "manifests" member of a JSON document: absent, null or an array
ManifestsFields ==
    {[kind |-> "absent", items |-> <<>>], [kind |-> "null", items |-> <<>>]}
    \cup {[kind |-> "array", items |-> s] : s \in EntrySeqs(MaxEntries)}

\* manifest bytes a registry can return: well-formed documents and one truncated payload
Truncated ==
    [valid |-> FALSE, manifests |-> [kind |-> "absent", items |-> <<>>],
     mediaType |-> "manifest.v2+json", schemaVersion |-> 2]

ManifestDatas ==
    {[valid |-> TRUE, manifests |-> f, mediaType |-> m, schemaVersion |-> v] :
        f \in ManifestsFields, m \in MediaTypes, v \in SchemaVersions}
    \cup {Truncated}

\* ------------------------------------------------------------------ state
VARIABLES
    srcName,        \* c.srcImage.imageName
    destName,       \* c.destImage.imageName
    destArch,       \* c.destImage.dockerImage.arch
    pc,             \* position: "idle", the call about to be made, or "crashed"
    op,             \* the invocation running or last returned: "none", "Check", "Copy"
    calls,          \* invocations started so far
    log,            \* external calls made by the current/last invocation
    manifestData,   \* bytes returned by GetManifest
    manifest,       \* the decoded ImageManifest
    ref,            \* argument handed to docker.ParseReference
    inspectedArch,  \* inspectedImage.Architecture
    retOk,          \* Check's boolean result
    retErr,         \* the returned error ("nil" for none)
    openSrc,        \* image-source handles opened and not closed
    openImg,        \* image handles opened and not closed
    livePolicy      \* policy contexts created and not destroyed

vars == <<srcName, destName, destArch, pc, op, calls, log, manifestData, manifest,
          ref, inspectedArch, retOk, retErr, openSrc, openImg, livePolicy>>

options == <<srcName, destName, destArch>>

\* ---------------------------------------------------------------- helpers
Sep == <<"/", "/">>

NoErr == "nil"

NoRef == <<"d">>

NilManifests == [nil |-> TRUE, items |-> <<>>]

\* the zero value of ImageManifest (var manifest ImageManifest)
ZeroManifest == [Manifests |-> NilManifests, MediaType |-> "", SchemaVersion |-> 0]

Call(name, ok) == [call |-> name, ok |-> ok]

\* strings.Index: 1-based position of the first occurrence of sep in s, 0 if none
Index(s, sep) ==
    LET hits == {i \in 1..(Len(s) - Len(sep) + 1) : SubSeq(s, i, i + Len(sep) - 1) = sep}
    IN  IF hits = {} THEN 0 ELSE CHOOSE i \in hits : \A j \in hits : i <= j

\* strings.Split(s, sep) for a non-empty sep
RECURSIVE Split(_, _)
Split(s, sep) ==
    LET i == Index(s, sep)
    IN  IF i = 0 THEN <<s>>
        ELSE <<SubSeq(s, 1, i - 1)>> \o Split(SubSeq(s, i + Len(sep), Len(s)), sep)

\* strings.Split(name, "//")[1] is an index expression: out of range when there is no "//"
SplitInRange(name) == Len(Split(name, Sep)) >= 2

\* "//" + strings.Split(name, "//")[1]
DerivedRef(name) == Sep \o Split(name, Sep)[2]

\* alltransports.ParseImageName: the text before the first ":" must name a transport;
\* the transport's own parser may still reject the rest
ParseImageNameOutcomes(name) ==
    IF Len(name) >= 2 /\ name[1] = "d" /\ name[2] = ":" THEN BOOLEAN ELSE {FALSE}

\* json.Unmarshal into ImageManifest: an absent or null "manifests" leaves the slice nil,
\* an array (even an empty one) makes it non-nil
Unmarshal(data) ==
    [Manifests |-> IF data.manifests.kind = "array"
                   THEN [nil |-> FALSE, items |-> data.manifests.items]
                   ELSE NilManifests,
     MediaType |-> data.mediaType,
     SchemaVersion |-> data.schemaVersion]

\* the nil test written as a length test: an empty array counts as flat
IsFlatByLength(m) == Len(m.Manifests.items) = 0

\* the shape read from the declared media type instead of the manifests field
IsFlatByMediaType(m) == m.MediaType # "manifest.list.v2+json"

\* manifest.Manifests == nil
IsFlat(m) == m.Manifests.nil

\* an unset destination architecture taken to match anything
ArchMatchesUnsetAny(inspected, dest) == dest = "" \/ inspected = dest

\* inspectedImage.Architecture != c.destImage.dockerImage.arch, negated
ArchMatches(inspected, dest) == inspected = dest

Init ==
    /\ srcName \in Locators
    /\ destName \in DestLocators
    /\ destArch \in Archs
    /\ pc = "idle"
    /\ op = "none"
    /\ calls = 0
    /\ log = <<>>
    /\ manifestData = Truncated
    /\ manifest = ZeroManifest
    /\ ref = NoRef
    /\ inspectedArch = ""
    /\ retOk = FALSE
    /\ retErr = NoErr
    /\ openSrc = 0
    /\ openImg = 0
    /\ livePolicy = 0

\* ------------------------------------------------------------------ Check
\* func (c *CopyImageOptions) Check(): entry, then alltransports.ParseImageName(src)
CheckParseSrc ==
    /\ pc = "idle"
    /\ calls < MaxCalls
    /\ calls' = calls + 1
    /\ op' = "Check"
    /\ manifestData' = Truncated
    /\ manifest' = ZeroManifest
    /\ ref' = NoRef
    /\ inspectedArch' = ""
    /\ \E ok \in ParseImageNameOutcomes(srcName) :
          /\ log' = <<Call("ParseImageName(src)", ok)>>
          /\ IF ok
             THEN pc' = "NewImageSource" /\ retOk' = FALSE /\ retErr' = NoErr
             ELSE pc' = "idle" /\ retOk' = FALSE /\ retErr' = "errParseImageName"
    /\ UNCHANGED <<options, openSrc, openImg, livePolicy>>

\* src, err := srcRef.NewImageSource(ctx, srcContext); src is never closed
CheckNewImageSource ==
    /\ pc = "NewImageSource"
    /\ \E ok \in BOOLEAN :
          /\ log' = Append(log, Call("NewImageSource", ok))
          /\ IF ok
             THEN pc' = "GetManifest" /\ openSrc' = openSrc + 1 /\ UNCHANGED <<retOk, retErr>>
             ELSE pc' = "idle" /\ retOk' = FALSE /\ retErr' = "errNewImageSource"
                  /\ UNCHANGED openSrc
    /\ UNCHANGED <<options, op, calls, manifestData, manifest, ref, inspectedArch,
                   openImg, livePolicy>>

\* manifestData, _, err := src.GetManifest(ctx, nil)
CheckGetManifest ==
    /\ pc = "GetManifest"
    /\ \/ /\ log' = Append(log, Call("GetManifest", FALSE))
          /\ pc' = "idle" /\ retOk' = FALSE /\ retErr' = "errGetManifest"
          /\ UNCHANGED manifestData
       \/ \E data \in ManifestDatas :
             /\ log' = Append(log, Call("GetManifest", TRUE))
             /\ manifestData' = data
             /\ pc' = "Unmarshal"
             /\ UNCHANGED <<retOk, retErr>>
    /\ UNCHANGED <<options, op, calls, manifest, ref, inspectedArch,
                   openSrc, openImg, livePolicy>>

\* json.Unmarshal, then the  if manifest.Manifests == nil  test and,
\* for a non-nil slice, the final  return true, nil
CheckUnmarshal ==
    /\ pc = "Unmarshal"
    /\ log' = Append(log, Call("Unmarshal", manifestData.valid))
    /\ IF ~manifestData.valid
       THEN /\ pc' = "idle" /\ retOk' = FALSE /\ retErr' = "errUnmarshal"
            /\ UNCHANGED manifest
       ELSE /\ manifest' = Unmarshal(manifestData)
            /\ IF IsFlat(manifest')
               THEN pc' = "ParseReference" /\ UNCHANGED <<retOk, retErr>>
               ELSE pc' = "idle" /\ retOk' = TRUE /\ retErr' = NoErr
    /\ UNCHANGED <<options, op, calls, manifestData, ref, inspectedArch,
                   openSrc, openImg, livePolicy>>

\* ref, err := docker.ParseReference("//" + strings.Split(c.srcImage.imageName, "//")[1])
\* The index expression panics (index out of range) when the name holds no "//";
\* no deferred call is registered yet, so the panic leaves Check with nothing run.
CheckParseReference ==
    /\ pc = "ParseReference"
    /\ IF ~SplitInRange(srcName)
       THEN /\ log' = Append(log, Call("strings.Split[1]", FALSE))
            /\ pc' = "crashed"
            /\ UNCHANGED <<ref, retOk, retErr>>
       ELSE /\ ref' = DerivedRef(srcName)
            /\ \E ok \in BOOLEAN :
                  /\ log' = log \o <<Call("strings.Split[1]", TRUE), Call("ParseReference", ok)>>
                  /\ IF ok
                     THEN pc' = "NewImage" /\ UNCHANGED <<retOk, retErr>>
                     ELSE pc' = "idle" /\ retOk' = FALSE /\ retErr' = "errParseReference"
    /\ UNCHANGED <<options, op, calls, manifestData, manifest, inspectedArch,
                   openSrc, openImg, livePolicy>>

\* img, err := ref.NewImage(ctx, srcContext); defer img.Close()
CheckNewImage ==
    /\ pc = "NewImage"
    /\ \E ok \in BOOLEAN :
          /\ log' = Append(log, Call("NewImage", ok))
          /\ IF ok
             THEN pc' = "Inspect" /\ openImg' = openImg + 1 /\ UNCHANGED <<retOk, retErr>>
             ELSE pc' = "idle" /\ retOk' = FALSE /\ retErr' = "errNewImage"
                  /\ UNCHANGED openImg
    /\ UNCHANGED <<options, op, calls, manifestData, manifest, ref, inspectedArch,
                   openSrc, livePolicy>>

\* the same step with the Close missing on the error return
CheckInspectLeakOnError ==
    /\ pc = "Inspect"
    /\ pc' = "idle"
    /\ \/ /\ log' = Append(log, Call("Inspect", FALSE))
          /\ retOk' = FALSE /\ retErr' = "errInspect"
          /\ UNCHANGED <<inspectedArch, openImg>>
       \/ \E arch \in Archs :
             /\ log' = log \o <<Call("Inspect", TRUE), Call("img.Close", TRUE)>>
             /\ openImg' = openImg - 1
             /\ inspectedArch' = arch
             /\ retOk' = ArchMatches(arch, destArch)
             /\ retErr' = NoErr
    /\ UNCHANGED <<options, op, calls, manifestData, manifest, ref, openSrc, livePolicy>>

\* inspectedImage, err := img.Inspect(ctx); the architecture comparison; the returns;
\* the deferred img.Close() runs on each of the three returns
CheckInspect ==
    /\ pc = "Inspect"
    /\ pc' = "idle"
    /\ openImg' = openImg - 1
    /\ \/ /\ log' = log \o <<Call("Inspect", FALSE), Call("img.Close", TRUE)>>
          /\ retOk' = FALSE /\ retErr' = "errInspect"
          /\ UNCHANGED inspectedArch
       \/ \E arch \in Archs :
             /\ log' = log \o <<Call("Inspect", TRUE), Call("img.Close", TRUE)>>
             /\ inspectedArch' = arch
             /\ retOk' = ArchMatches(arch, destArch)
             /\ retErr' = NoErr
    /\ UNCHANGED <<options, op, calls, manifestData, manifest, ref, openSrc, livePolicy>>

\* ------------------------------------------------------------------- Copy
\* func (c *CopyImageOptions) Copy(): entry, getPolicyContext(), defer policyContext.Destroy()
CopyGetPolicyContext ==
    /\ pc = "idle"
    /\ calls < MaxCalls
    /\ calls' = calls + 1
    /\ op' = "Copy"
    /\ manifestData' = Truncated
    /\ manifest' = ZeroManifest
    /\ ref' = NoRef
    /\ inspectedArch' = ""
    /\ retOk' = FALSE
    /\ \E ok \in BOOLEAN :
          /\ log' = <<Call("NewPolicyContext", ok)>>
          /\ IF ok
             THEN pc' = "CopyParseSrc" /\ livePolicy' = livePolicy + 1 /\ retErr' = NoErr
             ELSE pc' = "idle" /\ retErr' = "errNewPolicyContext" /\ UNCHANGED livePolicy
    /\ UNCHANGED <<options, openSrc, openImg>>

\* the same step with the Destroy missing on the error return
CopyParseSrcLeakOnError ==
    /\ pc = "CopyParseSrc"
    /\ \E ok \in ParseImageNameOutcomes(srcName) :
          IF ok
          THEN /\ log' = Append(log, Call("ParseImageName(src)", TRUE))
               /\ pc' = "CopyParseDest"
               /\ UNCHANGED <<retErr, livePolicy>>
          ELSE /\ log' = Append(log, Call("ParseImageName(src)", FALSE))
               /\ pc' = "idle" /\ retErr' = "errParseImageName"
               /\ UNCHANGED livePolicy
    /\ UNCHANGED <<options, op, calls, manifestData, manifest, ref, inspectedArch,
                   retOk, openSrc, openImg>>

\* srcRef, err := alltransports.ParseImageName(c.srcImage.imageName)
CopyParseSrc ==
    /\ pc = "CopyParseSrc"
    /\ \E ok \in ParseImageNameOutcomes(srcName) :
          IF ok
          THEN /\ log' = Append(log, Call("ParseImageName(src)", TRUE))
               /\ pc' = "CopyParseDest"
               /\ UNCHANGED <<retErr, livePolicy>>
          ELSE /\ log' = log \o <<Call("ParseImageName(src)", FALSE), Call("Destroy", TRUE)>>
               /\ livePolicy' = livePolicy - 1
               /\ pc' = "idle" /\ retErr' = "errParseImageName"
    /\ UNCHANGED <<options, op, calls, manifestData, manifest, ref, inspectedArch,
                   retOk, openSrc, openImg>>

\* the same step with the error of the destination parse ignored
CopyParseDestIgnoreError ==
    /\ pc = "CopyParseDest"
    /\ \E ok \in ParseImageNameOutcomes(destName) :
          /\ log' = Append(log, Call("ParseImageName(dest)", ok))
          /\ pc' = "CopyImage"
          /\ UNCHANGED <<retErr, livePolicy>>
    /\ UNCHANGED <<options, op, calls, manifestData, manifest, ref, inspectedArch,
                   retOk, openSrc, openImg>>

\* destRef, err := alltransports.ParseImageName(c.destImage.imageName)
CopyParseDest ==
    /\ pc = "CopyParseDest"
    /\ \E ok \in ParseImageNameOutcomes(destName) :
          IF ok
          THEN /\ log' = Append(log, Call("ParseImageName(dest)", TRUE))
               /\ pc' = "CopyImage"
               /\ UNCHANGED <<retErr, livePolicy>>
          ELSE /\ log' = log \o <<Call("ParseImageName(dest)", FALSE), Call("Destroy", TRUE)>>
               /\ livePolicy' = livePolicy - 1
               /\ pc' = "idle" /\ retErr' = "errParseDestName"
    /\ UNCHANGED <<options, op, calls, manifestData, manifest, ref, inspectedArch,
                   retOk, openSrc, openImg>>

\* _, err = copy.Image(...); both returns run the deferred Destroy
CopyImage ==
    /\ pc = "CopyImage"
    /\ \E ok \in BOOLEAN :
          /\ log' = log \o <<Call("copy.Image", ok), Call("Destroy", TRUE)>>
          /\ retErr' = IF ok THEN NoErr ELSE "errCopyImage"
    /\ livePolicy' = livePolicy - 1
    /\ pc' = "idle"
    /\ UNCHANGED <<options, op, calls, manifestData, manifest, ref, inspectedArch,
                   retOk, openSrc, openImg>>

Next ==
    \/ CheckParseSrc
    \/ CheckNewImageSource
    \/ CheckGetManifest
    \/ CheckUnmarshal
    \/ CheckParseReference
    \/ CheckNewImage
    \/ CheckInspect
    \/ CopyGetPolicyContext
    \/ CopyParseSrc
    \/ CopyParseDest
    \/ CopyImage

Spec == Init /\ [][Next]_vars

\* ------------------------------------------------------- reading the log
CheckReturned == op = "Check" /\ pc = "idle"

CheckEnded == op = "Check" /\ pc \in {"idle", "crashed"}

CopyReturned == op = "Copy" /\ pc = "idle"

Made(name) == \E i \in DOMAIN log : log[i].call = name

Succeeded(name) == \E i \in DOMAIN log : log[i] = Call(name, TRUE)

Failed(name) == \E i \in DOMAIN log : log[i] = Call(name, FALSE)

Count(name) == Cardinality({i \in DOMAIN log : log[i].call = name})

AllOk == \A i \in DOMAIN log : log[i].ok

\* the fetched document itself, not the model's reading of it
DocFlat == manifestData.manifests.kind # "array"

Decoded == Succeeded("Unmarshal")

\* ----------------------------------------------------------------- claims
\* C1: for a flat-shaped manifest with every resolution step successful, Check returns
\* (true, nil) exactly when the inspected architecture equals the destination's
\* configured architecture and (false, nil) otherwise, for every pair of values,
\* the empty destination architecture included.
C1_FlatResultIsArchEquality ==
    (CheckReturned /\ Decoded /\ DocFlat /\ AllOk) =>
        /\ Succeeded("Inspect")
        /\ retErr = NoErr
        /\ retOk = (inspectedArch = destArch)

C1_Witness ==
    /\ CheckReturned /\ Decoded /\ DocFlat /\ AllOk
    /\ destArch = "" /\ inspectedArch = "amd64" /\ ~retOk /\ retErr = NoErr

\* C2: for a manifest whose "manifests" member is an array (empty or not), Check
\* returns (true, nil) whatever the destination architecture and the entries are.
C2_IndexAlwaysCompatible ==
    (CheckReturned /\ Decoded /\ ~DocFlat) => (retOk /\ retErr = NoErr)

C2_Witness ==
    /\ CheckReturned /\ Decoded
    /\ manifestData.manifests = [kind |-> "array", items |-> <<>>]
    /\ destArch = "arm64" /\ retOk /\ retErr = NoErr

\* C3: once the manifest has decoded, the image-open/inspect path is entered exactly
\* when "manifests" is absent or null, whatever mediaType and schemaVersion say; an
\* index-shaped manifest never opens or inspects an image, and a flat-shaped one
\* yields a result without error only after a successful open and inspect.
FlatPathEntered ==
    pc \in {"ParseReference", "NewImage", "Inspect"} \/ Made("strings.Split[1]")

C3_ShapeDecidedByManifestsField ==
    (op = "Check" /\ Decoded) =>
        /\ FlatPathEntered <=> DocFlat
        /\ ~DocFlat => (~Made("NewImage") /\ ~Made("Inspect"))
        /\ (DocFlat /\ pc = "idle" /\ retErr = NoErr) =>
               (Succeeded("NewImage") /\ Succeeded("Inspect"))

C3_Witness ==
    /\ CheckReturned /\ Decoded /\ DocFlat
    /\ manifestData.mediaType = "manifest.list.v2+json"
    /\ manifestData.schemaVersion = 1
    /\ Succeeded("Inspect")

\* C4: a Copy that acquired a policy context destroys it exactly once, as its last
\* call before returning, on success, on either parse failure and on a copy failure;
\* a Copy whose policy-context construction failed destroys nothing.
C4_PolicyContextReleasedOnce ==
    CopyReturned =>
        IF Succeeded("NewPolicyContext")
        THEN /\ Count("Destroy") = 1
             /\ log[Len(log)].call = "Destroy"
             /\ livePolicy = 0
        ELSE Count("Destroy") = 0 /\ livePolicy = 0

C4_Witness ==
    /\ CopyReturned /\ Succeeded("NewPolicyContext")
    /\ retErr = "errParseImageName" /\ Count("Destroy") = 1

\* C5: a Check that ends, ends by returning (true, nil), (false, nil) or (false, err);
\* a failed step is the last resolution step made and its error is returned with
\* false; (false, nil) is returned only for a flat-shaped image whose inspected
\* architecture differs from the destination's.
StepError(name) ==
    CASE name = "ParseImageName(src)" -> "errParseImageName"
      [] name = "NewImageSource" -> "errNewImageSource"
      [] name = "GetManifest" -> "errGetManifest"
      [] name = "Unmarshal" -> "errUnmarshal"
      [] name = "strings.Split[1]" -> "errParseReference"
      [] name = "ParseReference" -> "errParseReference"
      [] name = "NewImage" -> "errNewImage"
      [] name = "Inspect" -> "errInspect"
      [] OTHER -> NoErr

C5_CheckResultShape ==
    CheckEnded =>
        /\ pc = "idle"
        /\ retErr # NoErr => ~retOk
        /\ \A i \in DOMAIN log :
              ~log[i].ok =>
                 /\ retErr = StepError(log[i].call)
                 /\ \A j \in DOMAIN log : j > i => log[j].call = "img.Close"
        /\ AllOk => retErr = NoErr
        /\ (~retOk /\ retErr = NoErr) =>
               (Decoded /\ DocFlat /\ Succeeded("Inspect") /\ inspectedArch # destArch)

\* C6: a Check that reaches the flat-shape path with a locator holding no "//"
\* returns (false, err) with a reference-parse error; it neither falls back to
\* another reference nor ends without returning.
C6_NoSeparatorReturnsParseError ==
    (CheckEnded /\ Decoded /\ DocFlat /\ Index(srcName, Sep) = 0) =>
        /\ pc = "idle"
        /\ ~retOk
        /\ retErr = "errParseReference"
        /\ ~Made("NewImage")

\* C7: a Check that opened the flat-shape image handle closes it exactly once before
\* it returns, whether Inspect succeeds or fails and whether the architectures match;
\* a Check that never opened it closes nothing.
C7_ImageHandleClosedOnce ==
    CheckEnded =>
        /\ Count("img.Close") = (IF Succeeded("NewImage") THEN 1 ELSE 0)
        /\ Made("img.Close") => log[Len(log)].call = "img.Close"
        /\ openImg = 0

C7_Witness ==
    /\ CheckReturned /\ Succeeded("NewImage")
    /\ retErr = "errInspect" /\ Count("img.Close") = 1

\* C8: Copy makes its calls in the order acquire, parse source, parse destination,
\* copy, release; it calls the copy primitive at most once and only after both
\* locators parsed; a parse failure returns an error with no copy call; Copy returns
\* nil exactly when the copy primitive was called and succeeded.
CopyOrder ==
    <<"NewPolicyContext", "ParseImageName(src)", "ParseImageName(dest)", "copy.Image">>

C8_CopySingleShotOrdered ==
    op = "Copy" =>
        /\ \A i \in DOMAIN log :
              \/ i <= Len(CopyOrder) /\ log[i].call = CopyOrder[i]
              \/ i = Len(log) /\ i > 1 /\ log[i].call = "Destroy"
        /\ \A i, j \in DOMAIN log : (i < j /\ log[j].call # "Destroy") => log[i].ok
        /\ Count("copy.Image") <= 1
        /\ Made("copy.Image") =>
               (Succeeded("ParseImageName(src)") /\ Succeeded("ParseImageName(dest)"))
        /\ CopyReturned =>
               /\ (retErr = NoErr) <=> Succeeded("copy.Image")
               /\ (Failed("ParseImageName(src)") \/ Failed("ParseImageName(dest)")) =>
                      (retErr # NoErr /\ ~Made("copy.Image"))

C8_Witness ==
    /\ CopyReturned /\ retErr = NoErr
    /\ Len(log) = 5 /\ Succeeded("copy.Image") /\ log[5].call = "Destroy"

\* C9: on the flat-shape path, for a locator holding "//", the reference derived for
\* the image open is "//" followed by everything after the first "//" of the locator,
\* also when that remainder holds further "//".
C9_DerivedRefIsWholeRemainder ==
    (op = "Check" /\ Succeeded("strings.Split[1]") /\ Index(srcName, Sep) # 0) =>
        ref = Sep \o SubSeq(srcName, Index(srcName, Sep) + Len(Sep), Len(srcName))

\* C10: when Check has returned, every handle it opened is closed: no image-source
\* handle and no image handle stays open, after any sequence of calls.
C10_NoHandleOpenAfterReturn ==
    pc = "idle" => (openSrc = 0 /\ openImg = 0)

====
